---- MODULE Spec2Model ----
(***************************************************************************)
(* Model of src/eot.py: one HTTP GET to the Horizons API, extraction of    *)
(* the rows between the $$SOE and $$EOE lines, conversion of each row's    *)
(* apparent solar time to an equation-of-time value, grouping by year,     *)
(* padding of every year with its neighbours' edge values, json.dump.      *)
(*                                                                         *)
(* Numbers.  A numeric token is held as an integer count of hundredths     *)
(* (the token "11.84" is 1184, the token "57" is 5700).  An eot value is   *)
(* held as an integer count of hundredths of a minute, which is what       *)
(* round(eot, 2) keeps.  Arithmetic is exact; the binary rounding error of *)
(* Python floats is not modelled.                                          *)
(*                                                                         *)
(* Lines.  A line of the response is a record [s, a]: s is the text of the *)
(* line when it is exactly "$$SOE" or "$$EOE" and "" for any other line;   *)
(* a is line.split(), a sequence of tokens.  A token is a record [k, n]:   *)
(*   k = "date": the text YYYY-Mon-DD, n the year YYYY                     *)
(*   k = "num" : a plain digit string, n its value in hundredths           *)
(*   k = "dec" : digits with a decimal point, n its value in hundredths    *)
(*   k = "word": any other text ("*m", "12:00", "$$SOE", "*****")           *)
(***************************************************************************)
EXTENDS Integers, Sequences, FiniteSets, TLC

VARIABLES pc, err, errAt, status, lines, rows, pos, eots_of_year, e, year, stdout

vars == <<pc, err, errAt, status, lines, rows, pos, eots_of_year, e, year, stdout>>

(* ------------------------------ bounds --------------------------------- *)

\* number of years start..end (the program has 101)
NumYears == 2
\* longest sequence of well-formed rows in a response of family A
MaxRows == 5
\* longest token sequence of the free line of family B
MaxTokens == 4

(* --------------------------- program constants ------------------------- *)

start == 2000
end == start + NumYears - 1

(* ------------------------------- tokens -------------------------------- *)

Date(y) == [k |-> "date", n |-> y]
Num(v) == [k |-> "num", n |-> 100 * v]
Dec(c) == [k |-> "dec", n |-> c]
Word == [k |-> "word", n |-> 0]

\* int(a[0].split('-')[0]): the text before the first '-' must be an integer
\* literal.  "2000-Jan-01" gives 2000, "2000" gives 2000, "11.84" and "*m"
\* raise ValueError.
IntBeforeDash(tok) ==
    CASE tok.k = "date" -> [ok |-> TRUE, v |-> tok.n]
      [] tok.k = "num" -> [ok |-> TRUE, v |-> tok.n \div 100]
      [] OTHER -> [ok |-> FALSE, v |-> 0]

\* float(t): "57" and "11.84" parse, "2000-Jan-01" and "*m" raise ValueError.
Float(tok) ==
    CASE tok.k \in {"num", "dec"} -> [ok |-> TRUE, v |-> tok.n]
      [] OTHER -> [ok |-> FALSE, v |-> 0]

\* a[-j] of a Python list held as a sequence (j >= 1, j <= Len(a))
FromEnd(a, j) == a[Len(a) + 1 - j]

\* round-half-even of num/den, den > 0
Round(num, den) ==
    LET q == num \div den
        r == num % den
    IN  IF 2 * r < den THEN q
        ELSE IF 2 * r > den THEN q + 1
        ELSE IF q % 2 = 0 THEN q ELSE q + 1

\* the conversion without the subtraction of noon
Eot_no_noon(h, m, s) == Round(3600 * h + 60 * m + s, 60)

\* round((h + (m + s/60)/60 - 12)*60, 2) in hundredths of a minute, for h, m, s
\* in hundredths: 100*eot = (3600h + 60m + s - 4320000) / 60
Eot(h, m, s) == Round(3600 * h + 60 * m + s - 4320000, 60)

\* body of the row loop up to the computation of eot: the outcome for one
\* token list a, in the order the statements raise
ParseRow(a) ==
    LET bad(x) == [ok |-> FALSE, err |-> x, year |-> 0, eot |-> 0]
    IN  IF Len(a) = 0 THEN bad("IndexError")
        ELSE IF ~IntBeforeDash(a[1]).ok THEN bad("ValueError")
        ELSE IF ~Float(FromEnd(a, 1)).ok THEN bad("ValueError")
        ELSE IF Len(a) < 2 THEN bad("IndexError")
        ELSE IF ~Float(FromEnd(a, 2)).ok THEN bad("ValueError")
        ELSE IF Len(a) < 3 THEN bad("IndexError")
        ELSE IF ~Float(FromEnd(a, 3)).ok THEN bad("ValueError")
        ELSE [ok |-> TRUE, err |-> "",
              year |-> IntBeforeDash(a[1]).v,
              eot |-> Eot(Float(FromEnd(a, 3)).v, Float(FromEnd(a, 2)).v,
                          Float(FromEnd(a, 1)).v)]

(* --------------------- defaultdict(list) and lists --------------------- *)

EmptyDict == [y \in {} |-> <<>>]

Put(d, y, v) == [k \in DOMAIN d \cup {y} |-> IF k = y THEN v ELSE d[k]]

\* d[y] of a defaultdict(list): a missing key reads as the empty list ...
Get(d, y) == IF y \in DOMAIN d THEN d[y] ELSE <<>>

\* ... and the read inserts it
Touch(d, ys) == [k \in DOMAIN d \cup ys |-> Get(d, k)]

\* del d[y1]; del d[y2]
Del(d, ys) == [k \in DOMAIN d \ ys |-> d[k]]

\* the edge values with a default of 0.0 for a year without values
Ends_default(l) ==
    IF Len(l) = 0 THEN [ok |-> TRUE, first |-> 0, last |-> 0]
    ELSE [ok |-> TRUE, first |-> l[1], last |-> l[Len(l)]]

\* (l[0], l[-1]); IndexError on the empty list
Ends(l) ==
    IF Len(l) = 0 THEN [ok |-> FALSE, first |-> 0, last |-> 0]
    ELSE [ok |-> TRUE, first |-> l[1], last |-> l[Len(l)]]

\* a search that answers the end of the list when there is no such line
Index_or_end(ls, x) ==
    IF \E j \in 1..Len(ls) : ls[j].s = x
    THEN CHOOSE j \in 1..Len(ls) : ls[j].s = x /\ \A h \in 1..(j - 1) : ls[h].s # x
    ELSE Len(ls) + 1

\* lines.index(x): the 1-based position of the first line whose text is
\* exactly x, 0 when there is none (ValueError)
Index(ls, x) ==
    IF \E j \in 1..Len(ls) : ls[j].s = x
    THEN CHOOSE j \in 1..Len(ls) : ls[j].s = x /\ \A h \in 1..(j - 1) : ls[h].s # x
    ELSE 0

\* lines[i0+1 : j0] for the 0-based i0 = so - 1 and j0 = eo - 1: empty when the
\* end does not lie after the start
Between(ls, so, eo) == SubSeq(ls, so + 1, eo - 1)

\* the statement order with json.dump placed right after the row loop
After_dump_first(p) ==
    CASE p = "fetch" -> "sentinels"
      [] p = "sentinels" -> "rows"
      [] p = "rows" -> "dump"
      [] p = "dump" -> "assert"
      [] p = "assert" -> "side"
      [] p = "side" -> "pad"
      [] p = "pad" -> "del"
      [] p = "del" -> "done"

\* the statement that follows each statement of the module body
After(p) ==
    CASE p = "fetch" -> "sentinels"
      [] p = "sentinels" -> "rows"
      [] p = "rows" -> "assert"
      [] p = "assert" -> "side"
      [] p = "side" -> "pad"
      [] p = "pad" -> "del"
      [] p = "del" -> "dump"
      [] p = "dump" -> "done"

None == "None"

\* the side table e of year -> (first, last) built from the unpadded lists
SideTable(d) ==
    [y \in (start - 1)..(end + 1) |->
        IF y = start - 1 THEN <<None, Ends(Get(d, y)).first>>
        ELSE IF y = end + 1 THEN <<Ends(Get(d, y)).first, None>>
        ELSE <<Ends(Get(d, y)).first, Ends(Get(d, y)).last>>]

\* padding with the two values exchanged
PadYear_swapped(d, t, y) == [d EXCEPT ![y] = <<t[y + 1][1]>> \o @ \o <<t[y - 1][2]>>]

\* padding from the live lists of the neighbours instead of the side table
PadYear_inplace(d, t, y) ==
    [d EXCEPT ![y] = <<d[y - 1][Len(d[y - 1])]>> \o @ \o <<d[y + 1][1]>>]

\* eots_of_year[y].insert(0, e[y-1][1]); eots_of_year[y].append(e[y+1][0])
PadYear(d, t, y) == [d EXCEPT ![y] = <<t[y - 1][2]>> \o @ \o <<t[y + 1][1]>>]

\* what json.dump writes: an object whose keys are the decimal strings of the
\* integer keys
JsonObject(d) ==
    [key \in {ToString(y) : y \in DOMAIN d} |->
        d[CHOOSE y \in DOMAIN d : ToString(y) = key]]

(* ----------------------------- responses ------------------------------- *)

SOE == [s |-> "$$SOE", a |-> <<Word>>]
EOE == [s |-> "$$EOE", a |-> <<Word>>]
\* a line of the banner, or a sentinel with stray blanks around it
Header == [s |-> "", a |-> <<Word>>]

\* apparent solar times "11 57 11.84", "12 03 30.00", "00 00 00.00" and
\* "23 59 59.99"
TA == <<Num(11), Num(57), Dec(1184)>>
TB == <<Num(12), Num(3), Dec(3000)>>
TC == <<Num(0), Num(0), Dec(0)>>
TD == <<Num(23), Num(59), Dec(5999)>>
Times == {TA, TB, TC, TD}

\* a row as Horizons prints it: " 2000-Jan-01 12:00 *m  11 56 43.21"
Row(y, t) == [s |-> "", a |-> <<Date(y), Word, Word>> \o t]

\* one row for each of the years start-1 .. end+1, with the times t[1], t[2], ..
Skeleton(t) == [j \in 1..(NumYears + 2) |-> Row(start - 2 + j, t[j])]

AllTA == [j \in 1..(NumYears + 2) |-> TA]

IsChronological(rs) == \A j \in 1..(Len(rs) - 1) : rs[j].a[1].n <= rs[j + 1].a[1].n

\* family A: both sentinels, up to MaxRows well-formed rows in chronological
\* order, of the years start-2 .. end+1
RowsA == {Row(y, t) : y \in (start - 2)..(end + 1), t \in {TA, TB}}
BodiesA ==
    {<<Header, SOE>> \o rs \o <<EOE, Header>> :
        rs \in {x \in UNION {[1..n -> RowsA] : n \in 0..MaxRows} : IsChronological(x)}}

\* family B: one row per year, and one free line of up to MaxTokens tokens after
\* the row of year start-1
Tokens == {Date(start), Num(start), Num(11), Num(57), Dec(1184), Word}
BodiesB ==
    {<<SOE, Row(start - 1, TA), [s |-> "", a |-> x]>>
        \o Tail(Skeleton(AllTA)) \o <<EOE>> :
        x \in UNION {[1..n -> Tokens] : n \in 0..MaxTokens}}

\* family C: one row per year, each sentinel present, absent, replaced by the
\* other one or by a line that is not exactly it
Marks == {<<>>, <<SOE>>, <<EOE>>, <<Header>>}
BodiesC ==
    {<<Header>> \o m1 \o Skeleton(AllTA) \o m2 \o <<Header>> : m1 \in Marks, m2 \in Marks}

\* family D: both sentinels, one row per year, every time of Times
BodiesD == {<<SOE>> \o Skeleton(t) \o <<EOE>> : t \in [1..(NumYears + 2) -> Times]}

\* what requests.get can return: a status code and a body, already split at
\* '\n'
Responses ==
    [status_code : {200}, text : BodiesA \cup BodiesB]
        \cup [status_code : {200, 500}, text : BodiesC \cup BodiesD]

(* ------------------------------ the run -------------------------------- *)

Init ==
    /\ pc = "fetch"
    /\ err = ""
    /\ errAt = ""
    /\ status = 0
    /\ lines = <<>>
    /\ rows = <<>>
    /\ pos = 1
    /\ eots_of_year = EmptyDict
    /\ e = EmptyDict
    /\ year = start
    /\ stdout = <<>>

\* an uncaught exception ends the run
Raise(x) ==
    /\ pc' = "error"
    /\ err' = x
    /\ errAt' = pc

\* requests.get returns a response, whatever its status code;
\* lines = response.text.split('\n')
Fetch ==
    /\ pc = "fetch"
    /\ \E r \in Responses :
        /\ status' = r.status_code
        /\ lines' = r.text
    /\ pc' = After(pc)
    /\ UNCHANGED <<err, errAt, rows, pos, eots_of_year, e, year, stdout>>

\* requests.get raises (connection refused, DNS failure, ...)
FetchFail ==
    /\ pc = "fetch"
    /\ Raise("ConnectionError")
    /\ UNCHANGED <<status, lines, rows, pos, eots_of_year, e, year, stdout>>

\* lines[lines.index('$$SOE')+1:lines.index('$$EOE')]
Sentinels ==
    /\ pc = "sentinels"
    /\ Index(lines, "$$SOE") # 0
    /\ Index(lines, "$$EOE") # 0
    /\ rows' = Between(lines, Index(lines, "$$SOE"), Index(lines, "$$EOE"))
    /\ pos' = 1
    /\ pc' = After(pc)
    /\ UNCHANGED <<err, errAt, status, lines, eots_of_year, e, year, stdout>>

SentinelsFail ==
    /\ pc = "sentinels"
    /\ Index(lines, "$$SOE") = 0 \/ Index(lines, "$$EOE") = 0
    /\ Raise("ValueError")
    /\ UNCHANGED <<status, lines, rows, pos, eots_of_year, e, year, stdout>>

\* one pass of the row loop
ParseLine ==
    /\ pc = "rows"
    /\ pos <= Len(rows)
    /\ ParseRow(rows[pos].a).ok
    /\ LET p == ParseRow(rows[pos].a)
       IN  eots_of_year' = Put(eots_of_year, p.year, Append(Get(eots_of_year, p.year), p.eot))
    /\ pos' = pos + 1
    /\ UNCHANGED <<pc, err, errAt, status, lines, rows, e, year, stdout>>

ParseLineFail ==
    /\ pc = "rows"
    /\ pos <= Len(rows)
    /\ ~ParseRow(rows[pos].a).ok
    /\ Raise(ParseRow(rows[pos].a).err)
    /\ UNCHANGED <<status, lines, rows, pos, eots_of_year, e, year, stdout>>

RowsDone ==
    /\ pc = "rows"
    /\ pos > Len(rows)
    /\ pc' = After(pc)
    /\ UNCHANGED <<err, errAt, status, lines, rows, pos, eots_of_year, e, year, stdout>>

\* asserts that accept any non-empty boundary year
BoundaryOK_nonempty(d) == Len(Get(d, start - 1)) >= 1 /\ Len(Get(d, end + 1)) >= 1

\* the two asserts
BoundaryOK(d) == Len(Get(d, start - 1)) = 1 /\ Len(Get(d, end + 1)) = 1

AssertsPass ==
    /\ pc = "assert"
    /\ BoundaryOK(eots_of_year)
    /\ pc' = After(pc)
    /\ UNCHANGED <<err, errAt, status, lines, rows, pos, eots_of_year, e, year, stdout>>

AssertsFail ==
    /\ pc = "assert"
    /\ ~BoundaryOK(eots_of_year)
    /\ eots_of_year' =
        IF Len(Get(eots_of_year, start - 1)) # 1
        THEN Touch(eots_of_year, {start - 1})
        ELSE Touch(eots_of_year, {start - 1, end + 1})
    /\ Raise("AssertionError")
    /\ UNCHANGED <<status, lines, rows, pos, e, year, stdout>>

\* the construction of e
Side ==
    /\ pc = "side"
    /\ \A y \in start..end : Ends(Get(eots_of_year, y)).ok
    /\ e' = SideTable(eots_of_year)
    /\ eots_of_year' = Touch(eots_of_year, start..end)
    /\ year' = start
    /\ pc' = After(pc)
    /\ UNCHANGED <<err, errAt, status, lines, rows, pos, stdout>>

\* eots_of_year[y][0] of a year without rows: the read inserts the key, the
\* index raises
SideFail ==
    /\ pc = "side"
    /\ \E y \in start..end :
        /\ ~Ends(Get(eots_of_year, y)).ok
        /\ \A z \in start..(y - 1) : Ends(Get(eots_of_year, z)).ok
        /\ eots_of_year' = Touch(eots_of_year, {y})
        /\ e' = [z \in (start - 1)..(y - 1) \cup {end + 1} |-> SideTable(eots_of_year)[z]]
        /\ year' = y
    /\ Raise("IndexError")
    /\ UNCHANGED <<status, lines, rows, pos, stdout>>

\* one pass of the padding loop
Pad ==
    /\ pc = "pad"
    /\ year <= end
    /\ eots_of_year' = PadYear(eots_of_year, e, year)
    /\ year' = year + 1
    /\ UNCHANGED <<pc, err, errAt, status, lines, rows, pos, e, stdout>>

PadDone ==
    /\ pc = "pad"
    /\ year > end
    /\ pc' = After(pc)
    /\ UNCHANGED <<err, errAt, status, lines, rows, pos, eots_of_year, e, year, stdout>>

\* del eots_of_year[start-1]; del eots_of_year[end+1]
Delete ==
    /\ pc = "del"
    /\ eots_of_year' = Del(eots_of_year, {start - 1, end + 1})
    /\ pc' = After(pc)
    /\ UNCHANGED <<err, errAt, status, lines, rows, pos, e, year, stdout>>

\* json.dump(eots_of_year, sys.stdout, ...)
Dump ==
    /\ pc = "dump"
    /\ stdout' = Append(stdout, JsonObject(eots_of_year))
    /\ pc' = After(pc)
    /\ UNCHANGED <<err, errAt, status, lines, rows, pos, eots_of_year, e, year>>

Next ==
    \/ Fetch
    \/ FetchFail
    \/ Sentinels
    \/ SentinelsFail
    \/ ParseLine
    \/ ParseLineFail
    \/ RowsDone
    \/ AssertsPass
    \/ AssertsFail
    \/ Side
    \/ SideFail
    \/ Pad
    \/ PadDone
    \/ Delete
    \/ Dump

Spec == Init /\ [][Next]_vars

TypeOK ==
    /\ pc \in {"fetch", "sentinels", "rows", "assert", "side", "pad", "del", "dump", "done", "error"}
    /\ (pc = "error") = (err # "")

(* ------------------- the response, read independently ------------------ *)

\* the values of the rows of year y among the rows between the sentinels, in
\* the order of the rows
ValuesOf(y) ==
    LET own(r) == ParseRow(r.a).ok /\ ParseRow(r.a).year = y
        sel == SelectSeq(rows, own)
    IN  [j \in 1..Len(sel) |-> ParseRow(sel[j].a).eot]

\* the sequence written under the key of year y
Written(y) == stdout[1][ToString(y)]

\* the row loop ran to its end
Grouped == pc \in {"assert", "side", "pad", "del", "dump", "done"}
               \/ (pc = "error" /\ errAt \in {"assert", "side"})

\* the last three tokens of a row are a sexagesimal time of day: a whole hour
\* below 24, a whole minute below 60, a second below 60
ValidTime(a) ==
    /\ Len(a) >= 4
    /\ Float(FromEnd(a, 3)).v % 100 = 0
    /\ Float(FromEnd(a, 2)).v % 100 = 0
    /\ Float(FromEnd(a, 3)).ok /\ Float(FromEnd(a, 3)).v >= 0 /\ Float(FromEnd(a, 3)).v < 2400
    /\ Float(FromEnd(a, 2)).ok /\ Float(FromEnd(a, 2)).v >= 0 /\ Float(FromEnd(a, 2)).v < 6000
    /\ Float(FromEnd(a, 1)).ok /\ Float(FromEnd(a, 1)).v >= 0 /\ Float(FromEnd(a, 1)).v < 6000
AllValidTimes == \A j \in 1..Len(rows) : ValidTime(rows[j].a)

\* every written value lies in [lo, hi] hundredths of a minute
WrittenWithin(lo, hi) ==
    \A key \in DOMAIN stdout[1] : \A j \in 1..Len(stdout[1][key]) :
        stdout[1][key][j] >= lo /\ stdout[1][key][j] <= hi

(* ------------------------------- claims -------------------------------- *)

\* C1: when the table is written, the sequence of every year y of start..end
\* is the last value of the rows of year y-1, then the values of the rows of
\* year y in row order, then the first value of the rows of year y+1; its
\* length is the number of rows of y plus 2; the years start-1 and end+1 have
\* one row each.
C1_PaddedSequence ==
    stdout # <<>> =>
        /\ Len(ValuesOf(start - 1)) = 1
        /\ Len(ValuesOf(end + 1)) = 1
        /\ \A y \in start..end :
            /\ ToString(y) \in DOMAIN stdout[1]
            /\ Len(ValuesOf(y)) >= 1
            /\ Written(y) = <<ValuesOf(y - 1)[Len(ValuesOf(y - 1))]>>
                                \o ValuesOf(y) \o <<ValuesOf(y + 1)[1]>>
            /\ Len(Written(y)) = Len(ValuesOf(y)) + 2

\* a written table in which a year has two rows of different values and the
\* two paddings of that year differ
C1_Witness ==
    /\ stdout # <<>>
    /\ \E y \in start..end :
        /\ Len(ValuesOf(y)) >= 2
        /\ ValuesOf(y)[1] # ValuesOf(y)[Len(ValuesOf(y))]
        /\ Written(y)[1] # Written(y)[Len(Written(y))]

\* C2 (as claimed): the keys of the written table are exactly the years
\* start..end.
C2_KeysExactlyRange ==
    stdout # <<>> => DOMAIN stdout[1] = {ToString(y) : y \in start..end}

\* C3: in the written table, the first entry of year y is the entry before the
\* last of year y-1, and the last entry of year y is the second entry of year
\* y+1.
C3_Continuity ==
    stdout # <<>> =>
        /\ \A y \in (start + 1)..end : Written(y)[1] = Written(y - 1)[Len(Written(y - 1)) - 1]
        /\ \A y \in start..(end - 1) : Written(y)[Len(Written(y))] = Written(y + 1)[2]

\* a written table where the previous year's own last day differs from the
\* previous year's padding, and the next year's own first day from its padding
C3_Witness ==
    /\ stdout # <<>>
    /\ \E y \in (start + 1)..end :
        /\ Written(y - 1)[Len(Written(y - 1)) - 1] # Written(y - 1)[Len(Written(y - 1))]
        /\ Written(y)[1] # Written(y)[2]

\* C4: standard output holds nothing, or the run is over without an error and
\* standard output holds the serialisation of the whole final table, with a key
\* for every year of start..end.
C4_AllOrNothing ==
    \/ stdout = <<>>
    \/ /\ pc = "done"
       /\ err = ""
       /\ stdout = <<JsonObject(eots_of_year)>>
       /\ \A y \in start..end : ToString(y) \in DOMAIN stdout[1]

\* the latest error of a run, in the construction of the side table, with
\* nothing on standard output
C4_Witness == pc = "error" /\ errAt = "side" /\ eots_of_year # EmptyDict /\ stdout = <<>>

\* C5: once the sentinels were looked up in a body without a line "$$SOE" or
\* without a line "$$EOE", the run has ended in the ValueError of that lookup
\* and standard output is empty.
C5_MissingSentinel ==
    (/\ pc \notin {"fetch", "sentinels"}
     /\ errAt # "fetch"
     /\ \/ ~\E j \in 1..Len(lines) : lines[j].s = "$$SOE"
        \/ ~\E j \in 1..Len(lines) : lines[j].s = "$$EOE")
    => (pc = "error" /\ err = "ValueError" /\ errAt = "sentinels" /\ rows = <<>>
        /\ eots_of_year = EmptyDict /\ stdout = <<>>)

\* a body with "$$SOE" and rows but no "$$EOE", after the lookup
C5_Witness ==
    /\ pc = "error"
    /\ errAt = "sentinels"
    /\ \E j \in 1..Len(lines) : lines[j].s = "$$SOE"
    /\ ~\E j \in 1..Len(lines) : lines[j].s = "$$EOE"
    /\ Len(lines) > 3

\* C6: once all rows are grouped and the asserts have run, if year start-1 or
\* year end+1 has 0 or at least 2 rows, the run has ended in the AssertionError,
\* no list was padded and standard output is empty.
C6_BoundaryCount ==
    (/\ Grouped
     /\ pc # "assert"
     /\ Len(ValuesOf(start - 1)) # 1 \/ Len(ValuesOf(end + 1)) # 1)
    => (/\ pc = "error" /\ err = "AssertionError" /\ errAt = "assert"
        /\ \A y \in start..end : Get(eots_of_year, y) = ValuesOf(y)
        /\ stdout = <<>>)

\* the assert has failed on a boundary year of two rows, all other years having
\* rows
C6_Witness ==
    /\ pc = "error"
    /\ errAt = "assert"
    /\ Len(ValuesOf(start - 1)) >= 2 \/ Len(ValuesOf(end + 1)) >= 2
    /\ \A y \in start..end : Len(ValuesOf(y)) >= 1

\* C7 (as claimed): after a fetch that produced no response or a response of a
\* status other than 200, nothing is ever written and the run does not complete.
C7_BadStatusFatal ==
    (pc # "fetch" /\ status # 200) => (stdout = <<>> /\ pc # "done")

\* C8 (as claimed): no row of fewer than 4 tokens is passed by the row loop.
C8_ShortRowFatal ==
    \A j \in 1..Len(rows) : (j < pos /\ Len(rows[j].a) < 4) => FALSE

\* C9: once the side table was attempted with one row for each of the years
\* start-1 and end+1 and no row for some year of start..end, the run has ended
\* in the IndexError of that statement, no list of start..end holds a value
\* more than its rows, and standard output is empty.
C9_GapYear ==
    (/\ Grouped
     /\ pc \notin {"assert", "side"}
     /\ Len(ValuesOf(start - 1)) = 1 /\ Len(ValuesOf(end + 1)) = 1
     /\ \E y \in start..end : Len(ValuesOf(y)) = 0)
    => (/\ pc = "error" /\ err = "IndexError" /\ errAt = "side"
        /\ \A y \in start..end : Get(eots_of_year, y) = ValuesOf(y)
        /\ stdout = <<>>)

\* the side table has failed on a year without rows that follows a year with
\* rows
C9_Witness ==
    /\ pc = "error"
    /\ errAt = "side"
    /\ Len(ValuesOf(start - 1)) = 1 /\ Len(ValuesOf(end + 1)) = 1
    /\ \E y \in (start + 1)..end : Len(ValuesOf(y)) = 0 /\ Len(ValuesOf(y - 1)) > 0

\* C10 (as claimed): when every row carries a time of day, every written value
\* lies in [-20.00, 20.00].
C10_Within20 == (stdout # <<>> /\ AllValidTimes) => WrittenWithin(-2000, 2000)

\* C10 (amended): when every row carries a time of day, every written value
\* lies in [-720.00, 720.00].
C10_Within720 == (stdout # <<>> /\ AllValidTimes) => WrittenWithin(-72000, 72000)

\* a written table that holds both ends of the range
C10_Witness ==
    /\ stdout # <<>>
    /\ AllValidTimes
    /\ \E y \in start..end : \E j \in 1..Len(Written(y)) : Written(y)[j] = -72000
    /\ \E y \in start..end : \E j \in 1..Len(Written(y)) : Written(y)[j] = 72000

====
